---- MODULE Spec2Model ----
(***************************************************************************)
(* The doctor listing page (src/src/App.jsx, and its earlier variant       *)
(* src/unnamed/part_000): one React component holding the fetched list,    *)
(* the filter / sort / search criteria, the derived list, and the page's   *)
(* query string, which the component writes after every change and reads   *)
(* once at start-up.                                                       *)
(*                                                                         *)
(* A JavaScript string is a sequence of one-character strings, so that     *)
(* toLowerCase, includes, split, trim, parseInt and the URLSearchParams    *)
(* encoding are computed character by character.                           *)
(***************************************************************************)
EXTENDS Integers, Sequences, FiniteSets, TLC

VARIABLES
    variant,           \* which source file runs: "App" or "part_000"
    opened,            \* the query string the page was opened with
    url,               \* window.location.search without its leading "?"
    doctors,           \* useState: the raw list
    filteredDoctors,   \* useState: the derived (displayed) list
    searchQuery,       \* useState: the search string
    isLoading,         \* useState: the loading flag
    filters,           \* useState: specialty key -> BOOLEAN
    consultationType,  \* useState: "all", "video", "clinic" (a string)
    sorting,           \* useState: [fees, experience]
    pc,                \* where the component is: mounting, effect due, idle
    fetchState,        \* the request: "none", "inflight", then how it settled
    requests,          \* requests issued so far
    unhandled,         \* a failure escaped fetchDoctors
    logged,            \* console.error calls made by fetchDoctors
    events,            \* user events handled so far
    inflight,          \* the requests (by number) that have not settled yet
    settled            \* the requests that settled, with their responses, in order

vars == <<variant, opened, url, doctors, filteredDoctors, searchQuery,
          isLoading, filters, consultationType, sorting, pc, fetchState,
          requests, unhandled, logged, events, inflight, settled>>

criteria == <<filters, consultationType, sorting, searchQuery>>

(***************************************************************************)
(* Bounds of the model.                                                    *)
(***************************************************************************)
\* the longest payload the endpoint answers with
MaxPayloadLen == 3
\* the number of user events (clicks, key strokes) a run handles
MaxEvents == 3

\* the number of times fetchDoctors is called in a run with overlapping loads
MaxLoads == 2

(***************************************************************************)
(* JavaScript strings.                                                     *)
(***************************************************************************)
UpperCase == <<"A","B","C","D","E","F","G","H","I","J","K","L","M",
               "N","O","P","Q","R","S","T","U","V","W","X","Y","Z">>
LowerCase == <<"a","b","c","d","e","f","g","h","i","j","k","l","m",
               "n","o","p","q","r","s","t","u","v","w","x","y","z">>
Digits == <<"0","1","2","3","4","5","6","7","8","9">>

\* the rupee sign U+20B9, one character
Rupee == "Rs"

\* the position of the first c in seq, 0 when there is none
IndexOf(seq, c) ==
    LET hits == {i \in 1..Len(seq) : seq[i] = c}
    IN  IF hits = {} THEN 0 ELSE CHOOSE i \in hits : \A j \in hits : i <= j

\* String.prototype.toLowerCase
ToLowerCase(s) ==
    [i \in 1..Len(s) |->
        LET u == IndexOf(UpperCase, s[i]) IN IF u > 0 THEN LowerCase[u] ELSE s[i]]

\* String.prototype.includes
Includes(s, sub) ==
    \E i \in 0..(Len(s) - Len(sub)) : SubSeq(s, i + 1, i + Len(sub)) = sub

\* the position of the first occurrence of sub in s, 0 when there is none
FirstOccurrence(s, sub) ==
    IF Includes(s, sub)
    THEN 1 + CHOOSE i \in 0..(Len(s) - Len(sub)) :
                /\ SubSeq(s, i + 1, i + Len(sub)) = sub
                /\ \A j \in 0..(i-1) : SubSeq(s, j + 1, j + Len(sub)) # sub
    ELSE 0

\* String.prototype.replace(pattern, '') with a string pattern: the first occurrence only
RemoveFirst(s, sub) ==
    LET p == FirstOccurrence(s, sub)
    IN  IF p = 0 THEN s ELSE SubSeq(s, 1, p - 1) \o SubSeq(s, p + Len(sub), Len(s))

RECURSIVE TrimStart(_)
TrimStart(s) == IF s # <<>> /\ Head(s) = " " THEN TrimStart(Tail(s)) ELSE s

RECURSIVE TrimEnd(_)
TrimEnd(s) == IF s # <<>> /\ s[Len(s)] = " " THEN TrimEnd(SubSeq(s, 1, Len(s) - 1)) ELSE s

\* String.prototype.trim
Trim(s) == TrimEnd(TrimStart(s))

\* String.prototype.split(' ')[0]: the text before the first space
FirstWord(s) ==
    LET p == IndexOf(s, " ") IN IF p = 0 THEN s ELSE SubSeq(s, 1, p - 1)

\* the number of leading decimal digits of s
RECURSIVE DigitRun(_)
DigitRun(s) ==
    IF s # <<>> /\ IndexOf(Digits, Head(s)) > 0 THEN 1 + DigitRun(Tail(s)) ELSE 0

RECURSIVE DecimalValue(_)
DecimalValue(ds) ==
    IF ds = <<>> THEN 0
    ELSE 10 * DecimalValue(SubSeq(ds, 1, Len(ds) - 1)) + (IndexOf(Digits, ds[Len(ds)]) - 1)

NaN == [nan |-> TRUE, v |-> 0]
Number(n) == [nan |-> FALSE, v |-> n]

\* parseInt(string): leading white space skipped, an optional sign, then the
\* longest run of decimal digits; NaN when there is no digit
ParseIntString(s) ==
    LET t    == TrimStart(s)
        neg  == t # <<>> /\ Head(t) = "-"
        sign == t # <<>> /\ Head(t) \in {"-", "+"}
        body == IF sign THEN Tail(t) ELSE t
        n    == DigitRun(body)
    IN  IF n = 0 THEN NaN
        ELSE Number((IF neg THEN -1 ELSE 1) * DecimalValue(SubSeq(body, 1, n)))

\* x || 0 on a number: NaN and 0 are falsy
OrZero(x) == IF x.nan \/ x.v = 0 THEN 0 ELSE x.v

(***************************************************************************)
(* URLSearchParams: the application/x-www-form-urlencoded serializer and   *)
(* parser, over the characters the model uses.  A parameter list is a      *)
(* sequence of <<name, value>> pairs.                                      *)
(***************************************************************************)
\* the characters the serializer percent-encodes, and their codes
Reserved == <<"&", "=", "+", "%">>
ReservedCode == << <<"%","2","6">>, <<"%","3","D">>, <<"%","2","B">>, <<"%","2","5">> >>

\* one character, serialized: a space becomes "+", a reserved character its
\* percent code, any other character of the model (letters, digits, "-") itself
\* a serializer that percent-encodes nothing
FormEncodeCharRaw(c) == IF c = " " THEN <<"+">> ELSE <<c>>

FormEncodeChar(c) ==
    IF c = " " THEN <<"+">>
    ELSE IF IndexOf(Reserved, c) > 0 THEN ReservedCode[IndexOf(Reserved, c)]
    ELSE <<c>>

RECURSIVE FormEncodeFrom(_, _)
FormEncodeFrom(s, i) ==
    IF i > Len(s) THEN <<>> ELSE FormEncodeChar(s[i]) \o FormEncodeFrom(s, i + 1)

\* a string of characters that all stay as they are is its own encoding
FormEncode(s) ==
    IF \A i \in 1..Len(s) : s[i] # " " /\ s[i] \notin {"&", "=", "+", "%"}
    THEN s
    ELSE FormEncodeFrom(s, 1)

\* URLSearchParams.prototype.toString
RECURSIVE ParamsToStringFrom(_, _)
ParamsToStringFrom(params, i) ==
    IF i > Len(params) THEN <<>>
    ELSE (IF i > 1 THEN <<"&">> ELSE <<>>)
         \o FormEncode(params[i][1]) \o <<"=">> \o FormEncode(params[i][2])
         \o ParamsToStringFrom(params, i + 1)

ParamsToString(params) == ParamsToStringFrom(params, 1)

\* the parser's decoding of a name or a value: "+" to a space first, then
\* each percent code to its character
RECURSIVE PercentDecodeFrom(_, _)
PercentDecodeFrom(s, i) ==
    IF i > Len(s) THEN <<>>
    ELSE IF s[i] = "%" /\ i + 2 <= Len(s) /\ IndexOf(ReservedCode, SubSeq(s, i, i + 2)) > 0
         THEN <<Reserved[IndexOf(ReservedCode, SubSeq(s, i, i + 2))]>>
              \o PercentDecodeFrom(s, i + 3)
         ELSE <<s[i]>> \o PercentDecodeFrom(s, i + 1)

\* a string without "%" is its own decoding
PercentDecode(s) ==
    IF \A i \in 1..Len(s) : s[i] # "%" THEN s ELSE PercentDecodeFrom(s, 1)

PlusToSpace(s) == [i \in 1..Len(s) |-> IF s[i] = "+" THEN " " ELSE s[i]]

FormDecode(s) == PercentDecode(PlusToSpace(s))

\* s cut at every occurrence of the character sep
RECURSIVE SplitOn(_, _)
SplitOn(s, sep) ==
    LET p == IndexOf(s, sep)
    IN  IF p = 0 THEN <<s>>
        ELSE <<SubSeq(s, 1, p - 1)>> \o SplitOn(SubSeq(s, p + 1, Len(s)), sep)

\* one "name=value" piece: cut at its first "=", the value empty without one
ParsePair(piece) ==
    LET p == IndexOf(piece, "=")
    IN  IF p = 0 THEN <<FormDecode(piece), <<>>>>
        ELSE <<FormDecode(SubSeq(piece, 1, p - 1)),
               FormDecode(SubSeq(piece, p + 1, Len(piece)))>>

RECURSIVE ParsePieces(_)
ParsePieces(pieces) ==
    IF pieces = <<>> THEN <<>>
    ELSE (IF Head(pieces) = <<>> THEN <<>> ELSE <<ParsePair(Head(pieces))>>)
         \o ParsePieces(Tail(pieces))

\* new URLSearchParams(query): empty pieces are skipped
ParseParams(query) == ParsePieces(SplitOn(query, "&"))

Null == [null |-> TRUE, s |-> <<>>]
Found(s) == [null |-> FALSE, s |-> s]

\* URLSearchParams.prototype.get: the first value under the name, or null
ParamsGet(params, name) ==
    IF \E i \in 1..Len(params) : params[i][1] = name
    THEN Found(params[CHOOSE i \in 1..Len(params) :
                        /\ params[i][1] = name
                        /\ \A j \in 1..(i-1) : params[j][1] # name][2])
    ELSE Null

\* URLSearchParams.prototype.set on a list that does not hold the name yet
\* appends; on one that does, it replaces the first and drops the others
ParamsSet(params, name, value) ==
    IF ParamsGet(params, name).null THEN Append(params, <<name, value>>)
    ELSE LET first == CHOOSE i \in 1..Len(params) :
                        /\ params[i][1] = name
                        /\ \A j \in 1..(i-1) : params[j][1] # name
             keep(i) == i <= first \/ params[i][1] # name
             RECURSIVE Build(_)
             Build(i) == IF i > Len(params) THEN <<>>
                         ELSE (IF ~keep(i) THEN <<>>
                               ELSE IF i = first THEN << <<name, value>> >>
                               ELSE <<params[i]>>) \o Build(i + 1)
         IN  Build(1)

\* a JavaScript string used as a condition: the empty string is falsy
Truthy(s) == s # <<>>

(***************************************************************************)
(* The endpoint's payload.  A field of a payload item is a JavaScript      *)
(* value: undefined (the field is absent), a string, a number, a boolean   *)
(* or an array.  Of a record only the fields an effect, a handler or a     *)
(* branch of the view reads are kept: id, name, specialty, experience,     *)
(* fee, videoConsult, inClinic (location, address, image, languages and    *)
(* rating are copied into the markup and read nowhere else).               *)
(***************************************************************************)
Undefined == [t |-> "undefined"]
Str(s)    == [t |-> "string", s |-> s]
Num(n)    == [t |-> "number", n |-> n]
Bool(b)   == [t |-> "boolean", b |-> b]
Arr(a)    == [t |-> "array", a |-> a]

\* doctor.specialities[0]?.name || '' ; an absent specialities throws
SpecialtyOf(doctor) ==
    IF doctor.specialities.a = <<>> THEN <<>> ELSE doctor.specialities.a[1]

\* parseInt(doctor.experience?.split(' ')[0]) || 0
ExperienceOf(doctor) ==
    IF doctor.experience.t = "undefined" THEN 0
    ELSE OrZero(ParseIntString(FirstWord(doctor.experience.s)))

\* parseInt(doctor.fees?.replace(<rupee sign>, '').trim()) || 0
FeeOf(doctor) ==
    IF doctor.fees.t = "undefined" THEN 0
    ELSE OrZero(ParseIntString(Trim(RemoveFirst(doctor.fees.s, <<Rupee>>))))

\* doctor.video_consult || false
FlagOf(field) == field.t = "boolean" /\ field.b

\* whether the arrow function of data.map throws on this item: indexing an
\* absent specialities, or calling split / replace on a value that is not a
\* string
ItemThrows(doctor) ==
    \/ doctor.specialities.t # "array"
    \/ doctor.experience.t \notin {"undefined", "string"}
    \/ doctor.fees.t \notin {"undefined", "string"}

\* the record data.map builds of one item
TransformItem(doctor) ==
    [id           |-> doctor.id,
     name         |-> doctor.name,
     specialty    |-> SpecialtyOf(doctor),
     experience   |-> ExperienceOf(doctor),
     fee          |-> FeeOf(doctor),
     videoConsult |-> FlagOf(doctor.video_consult),
     inClinic     |-> FlagOf(doctor.in_clinic)]

\* how a response goes through the try block: the request rejects, the body
\* does not decode, data is no array (data.map is not a function), an item
\* throws, or the list is built
ResponseThrows(response) ==
    \/ response.fetchRejects
    \/ response.jsonRejects
    \/ response.data.t # "array"
    \/ \E i \in 1..Len(response.data.a) : ItemThrows(response.data.a[i])

transformedData(response) ==
    [i \in 1..Len(response.data.a) |-> TransformItem(response.data.a[i])]

\* what kind of settlement this is
Settlement(response) ==
    IF response.fetchRejects THEN "rejected"
    ELSE IF response.jsonRejects THEN "undecodable"
    ELSE IF ResponseThrows(response) THEN "malformed"
    ELSE "loaded"

Failures == {"rejected", "undecodable", "malformed"}

(***************************************************************************)
(* The payload items and the responses the model draws from.               *)
(***************************************************************************)
Item(id, name, specs, experience, fees, video, clinic) ==
    [id |-> id, name |-> name, specialities |-> specs, experience |-> experience,
     fees |-> fees, video_consult |-> video, in_clinic |-> clinic]

Items ==
    { Item(1, <<"A","n","n","a">>, Arr(<< <<"D","e","n","t","i","s","t">> >>),
           Str(<<"5"," ","Y","e","a","r","s">>), Str(<<Rupee," ","1","0","0">>),
           Bool(TRUE), Bool(FALSE)),
      Item(2, <<"H","A","N","N","A","H">>, Arr(<< <<"P","H","Y","S","I","C","I","A","N">> >>),
           Str(<<"5"," ","Y","e","a","r","s">>), Str(<<Rupee," ","2","0","0">>),
           Bool(FALSE), Bool(TRUE)),
      Item(3, <<"B","o">>,
           Arr(<< <<"D","e","n","t","i","s","t"," ","P","h","y","s","i","c","i","a","n">>,
                  <<"A","y","u","r","v","e","d","a">> >>),
           Str(<<"1","2"," ","Y","e","a","r","s">>), Str(<<Rupee," ","1","0","0">>),
           Undefined, Bool(TRUE)) }

\* an item with no specialty, no experience, no fee and no video flag
SparseItem ==
    Item(4, <<"D","e","v">>, Arr(<<>>), Undefined, Undefined, Undefined, Bool(TRUE))

\* the lists of distinct items of length at most n (an identifier is unique)
RECURSIVE ItemLists(_)
ItemLists(n) ==
    IF n = 0 THEN {<<>>}
    ELSE LET shorter == ItemLists(n - 1)
         IN  shorter \cup
             { Append(l, d) : <<l, d>> \in
                 { ld \in shorter \X Items :
                     /\ Len(ld[1]) = n - 1
                     /\ \A i \in 1..Len(ld[1]) : ld[1][i] # ld[2] } }

Response(rejects, undecodable, data) ==
    [fetchRejects |-> rejects, jsonRejects |-> undecodable, data |-> data]

\* items the arrow function throws on: no specialities, a numeric experience,
\* a boolean experience
BadItems ==
    { Item(5, <<"E","v","e">>, Undefined, Str(<<"3"," ","Y","e","a","r","s">>),
           Str(<<Rupee," ","5","0">>), Bool(TRUE), Bool(TRUE)),
      Item(6, <<"F","a","y">>, Arr(<<>>), Num(7), Str(<<Rupee," ","5","0">>),
           Bool(TRUE), Bool(TRUE)),
      Item(7, <<"G","u","s">>, Arr(<<>>), Bool(TRUE), Str(<<Rupee," ","5","0">>),
           Bool(TRUE), Bool(TRUE)) }

ItemWithId(id) == CHOOSE d \in Items : d.id = id

\* strings the transform accepts: numbers with a minus sign, and an
\* experience that is no number next to absent fees
SignedItem ==
    Item(8, <<"H","a","l">>, Arr(<< <<"D","e","n","t","i","s","t">> >>),
         Str(<<"-","3"," ","Y","e","a","r","s">>), Str(<<Rupee," ","-","2","0">>),
         Bool(TRUE), Bool(TRUE))

WordyItem ==
    Item(9, <<"I","d","a">>, Arr(<<>>), Str(<<"n","o","t"," ","a"," ","n","u","m","b","e","r">>),
         Undefined, Bool(FALSE), Bool(TRUE))

\* the ways the request settles: it rejects, its body does not decode, the
\* body is no array, an item of the array is malformed, or the list arrives
Responses ==
    { Response(TRUE, FALSE, Undefined),
      Response(FALSE, TRUE, Undefined),
      Response(FALSE, FALSE, [t |-> "object"]) }
    \cup { Response(FALSE, FALSE, Arr(<<ItemWithId(1), b>>)) : b \in BadItems }
    \cup { Response(FALSE, FALSE, Arr(<<>>)),
           Response(FALSE, FALSE,
                    Arr(<<ItemWithId(2), SparseItem, ItemWithId(1), ItemWithId(3)>>)),
           Response(FALSE, FALSE, Arr(<<WordyItem, SignedItem>>)) }

(***************************************************************************)
(* The criteria and their names in the query string.                       *)
(***************************************************************************)
ayurveda     == <<"a","y","u","r","v","e","d","a">>
homeopath    == <<"h","o","m","e","o","p","a","t","h">>
dentist      == <<"d","e","n","t","i","s","t">>
physician    == <<"p","h","y","s","i","c","i","a","n">>
gynecologist == <<"g","y","n","e","c","o","l","o","g","i","s","t">>

\* Object.entries(filters): the keys in the order useState lists them
SpecialtyKeys == <<ayurveda, homeopath, dentist, physician, gynecologist>>
KeySet == {SpecialtyKeys[i] : i \in 1..Len(SpecialtyKeys)}

All    == <<"a","l","l">>
Video  == <<"v","i","d","e","o">>
Clinic == <<"c","l","i","n","i","c">>
True   == <<"t","r","u","e">>

FilterParam(key) ==
    <<"f","i","l","t","e","r","-","s","p","e","c","i","a","l","t","y","-">> \o key
ConsultationParam ==
    <<"c","o","n","s","u","l","t","a","t","i","o","n","-","t","y","p","e">>
SortFeesParam == <<"s","o","r","t","-","f","e","e","s">>
SortExperienceParam == <<"s","o","r","t","-","e","x","p","e","r","i","e","n","c","e">>
SearchParam == <<"s","e","a","r","c","h">>

NoFilters == [k \in KeySet |-> FALSE]
NoSorting == [fees |-> FALSE, experience |-> FALSE]

(***************************************************************************)
(* The effect that applies filters and sorting, and writes the URL.        *)
(***************************************************************************)
\* Object.entries(filters).filter(([_, isActive]) => isActive).map(([specialty]) => specialty)
activeSpecialtyFilters(f) == SelectSeq(SpecialtyKeys, LAMBDA k : f[k])

\* a specialty step that asks for every active key (every for some)
SpecialtyPassesEvery(doctor, f) ==
    LET active == activeSpecialtyFilters(f)
    IN  Len(active) > 0 =>
            \A i \in 1..Len(active) :
                Includes(ToLowerCase(doctor.specialty), ToLowerCase(active[i]))

\* the specialty step's test of one record
SpecialtyPasses(doctor, f) ==
    LET active == activeSpecialtyFilters(f)
    IN  Len(active) > 0 =>
            \E i \in 1..Len(active) :
                Includes(ToLowerCase(doctor.specialty), ToLowerCase(active[i]))

\* the consultation type step's test of one record
ConsultationPasses(doctor, type) ==
    type # All =>
        IF type = Video THEN doctor.videoConsult
        ELSE IF type = Clinic THEN doctor.inClinic
        ELSE TRUE

\* a search step that compares case-sensitively
SearchPassesCaseSensitive(doctor, query, v) ==
    Truthy(query) =>
        \/ Includes(doctor.name, query)
        \/ /\ v = "App"
           /\ Includes(doctor.specialty, query)

\* the search step's test of one record: the name, and in App.jsx the
\* specialty too
SearchPasses(doctor, query, v) ==
    Truthy(query) =>
        \/ Includes(ToLowerCase(doctor.name), ToLowerCase(query))
        \/ /\ v = "App"
           /\ Includes(ToLowerCase(doctor.specialty), ToLowerCase(query))

\* filter steps without the consultation type step
FilterStepsNoConsultation(list, f, type, query, v) ==
    LET bySpecialty == SelectSeq(list, LAMBDA d : SpecialtyPasses(d, f))
    IN  SelectSeq(bySpecialty, LAMBDA d : SearchPasses(d, query, v))

\* result after the three filter steps, before sorting
FilterSteps(list, f, type, query, v) ==
    LET bySpecialty    == SelectSeq(list, LAMBDA d : SpecialtyPasses(d, f))
        byConsultation == SelectSeq(bySpecialty, LAMBDA d : ConsultationPasses(d, type))
    IN  SelectSeq(byConsultation, LAMBDA d : SearchPasses(d, query, v))

\* comparators with the experience order turned around
CompareAscending(by, a, b) ==
    IF by = "fees" THEN a.fee - b.fee ELSE a.experience - b.experience

\* the comparators handed to Array.prototype.sort
Compare(by, a, b) ==
    IF by = "fees" THEN a.fee - b.fee ELSE b.experience - a.experience

\* an insertion that puts x in front of the elements it compares equal to
RECURSIVE InsertUnstable(_, _, _)
InsertUnstable(sorted, x, by) ==
    IF sorted = <<>> THEN <<x>>
    ELSE IF Compare(by, Head(sorted), x) < 0
         THEN <<Head(sorted)>> \o InsertUnstable(Tail(sorted), x, by)
         ELSE <<x>> \o sorted

\* Array.prototype.sort is stable: x goes behind every element that does not
\* compare greater than it
RECURSIVE Insert(_, _, _)
Insert(sorted, x, by) ==
    IF sorted = <<>> THEN <<x>>
    ELSE IF Compare(by, Head(sorted), x) <= 0
         THEN <<Head(sorted)>> \o Insert(Tail(sorted), x, by)
         ELSE <<x>> \o sorted

RECURSIVE Sort(_, _)
Sort(list, by) ==
    IF list = <<>> THEN <<>>
    ELSE Insert(Sort(SubSeq(list, 1, Len(list) - 1), by), list[Len(list)], by)

\* if (sorting.fees) ... else if (sorting.experience) ...
SortStep(list, s) ==
    IF s.fees THEN Sort(list, "fees")
    ELSE IF s.experience THEN Sort(list, "experience")
    ELSE list

\* the list handed to setFilteredDoctors
ApplyQuery(list, f, type, s, query, v) ==
    SortStep(FilterSteps(list, f, type, query, v), s)

\* the specialty entries of the parameter list, in key order
RECURSIVE FilterEntries(_, _)
FilterEntries(f, i) ==
    IF i > Len(SpecialtyKeys) THEN <<>>
    ELSE (IF f[SpecialtyKeys[i]] THEN << <<FilterParam(SpecialtyKeys[i]), True>> >> ELSE <<>>)
         \o FilterEntries(f, i + 1)

\* a parameter list that names the consultation type even when it is "all"
QueryParamsAlwaysType(f, type, s, query) ==
    LET p1 == FilterEntries(f, 1)
        p2 == ParamsSet(p1, ConsultationParam, type)
        p3 == IF s.fees THEN ParamsSet(p2, SortFeesParam, True) ELSE p2
        p4 == IF s.experience THEN ParamsSet(p3, SortExperienceParam, True) ELSE p3
    IN  IF Truthy(query) THEN ParamsSet(p4, SearchParam, query) ELSE p4

\* the URLSearchParams the effect fills
QueryParams(f, type, s, query) ==
    LET p1 == FilterEntries(f, 1)
        p2 == IF type # All THEN ParamsSet(p1, ConsultationParam, type) ELSE p1
        p3 == IF s.fees THEN ParamsSet(p2, SortFeesParam, True) ELSE p2
        p4 == IF s.experience THEN ParamsSet(p3, SortExperienceParam, True) ELSE p3
    IN  IF Truthy(query) THEN ParamsSet(p4, SearchParam, query) ELSE p4

\* the query string history.replaceState leaves in the location
SerializeToURL(f, type, s, query) == ParamsToString(QueryParams(f, type, s, query))

\* the whole effect, run on the state a render has committed
RunQueryEffect(list, f, type, s, query) ==
    /\ filteredDoctors' = ApplyQuery(list, f, type, s, query, variant)
    /\ url' = SerializeToURL(f, type, s, query)

(***************************************************************************)
(* The effect that reads the URL on page load.                             *)
(***************************************************************************)
\* const params = new URLSearchParams(window.location.search)
URLFilters(params) ==
    [k \in KeySet |-> ParamsGet(params, FilterParam(k)) = Found(True)]

\* if (consultType) setConsultationType(consultType)
URLConsultationType(params, current) ==
    LET consultType == ParamsGet(params, ConsultationParam)
    IN  IF ~consultType.null /\ Truthy(consultType.s) THEN consultType.s ELSE current

URLSorting(params) ==
    [fees       |-> ParamsGet(params, SortFeesParam) = Found(True),
     experience |-> ParamsGet(params, SortExperienceParam) = Found(True)]

\* if (params.get('search')) setSearchQuery(params.get('search'))
URLSearchQuery(params, current) ==
    LET search == ParamsGet(params, SearchParam)
    IN  IF ~search.null /\ Truthy(search.s) THEN search.s ELSE current

\* the criteria the effect sets, reading query with the state at its defaults
DeserializeFromURL(query) ==
    LET params == ParseParams(query)
    IN  <<URLFilters(params), URLConsultationType(params, All), URLSorting(params),
          URLSearchQuery(params, <<>>)>>

(***************************************************************************)
(* The inputs the model draws from.                                        *)
(***************************************************************************)
\* a consultation-type value no button of the page sets
Phone == <<"p","h","o","n","e">>

\* the query strings the page is opened with
OpenedWith ==
    { <<>>,
      ParamsToString(<< <<FilterParam(dentist), True>>, <<ConsultationParam, Video>>,
                        <<SortFeesParam, True>>, <<SortExperienceParam, True>>,
                        <<SearchParam, <<"a","n","n">>>> >>),
      ParamsToString(<< <<ConsultationParam, Phone>> >>) }

\* what the user leaves in the search box
SearchInputs ==
    { <<>>, <<"a","n","n">>, <<"D","E","N","T">>, <<"%","2","6"," ","&","=","+">> }

(***************************************************************************)
(* The component.  React runs the three effects of the first render in     *)
(* the order they are declared.  The state updates of one handler, or of   *)
(* the code after one await, are committed in one render.  After a render  *)
(* caused by a click or a key stroke the query effect runs before the      *)
(* browser paints and before any other event is handled, so a handler and  *)
(* the effect it causes are one step; after the first render and after     *)
(* the request settles the effect runs in a step of its own, and the       *)
(* state in between is painted.                                            *)
(***************************************************************************)
Init ==
    /\ variant \in {"App", "part_000"}
    /\ opened \in OpenedWith
    /\ url = opened
    /\ doctors = <<>>
    /\ filteredDoctors = <<>>
    /\ searchQuery = <<>>
    /\ isLoading = TRUE
    /\ filters = NoFilters
    /\ consultationType = All
    /\ sorting = NoSorting
    /\ pc = "mountFetch"
    /\ fetchState = "none"
    /\ requests = 0
    /\ unhandled = FALSE
    /\ logged = 0
    /\ events = 0
    /\ inflight = {}
    /\ settled = <<>>

\* first effect on mount: fetchDoctors() up to its first await
MountFetchEffect ==
    /\ pc = "mountFetch"
    /\ isLoading' = TRUE
    /\ fetchState' = "inflight"
    /\ requests' = requests + 1
    /\ inflight' = inflight \cup {requests + 1}
    /\ pc' = "mountQuery"
    /\ UNCHANGED <<variant, opened, url, doctors, filteredDoctors, searchQuery,
                   filters, consultationType, sorting, unhandled, logged, events,
                   settled>>

\* the second effect without its history.replaceState call
MountQueryEffectKeepsURL ==
    /\ pc = "mountQuery"
    /\ filteredDoctors' = ApplyQuery(doctors, filters, consultationType, sorting,
                                     searchQuery, variant)
    /\ pc' = "mountURL"
    /\ UNCHANGED <<variant, opened, url, doctors, searchQuery, isLoading, filters,
                   consultationType, sorting, fetchState, requests, unhandled,
                   logged, events,
                   inflight, settled>>

\* second effect on mount: the query effect, on the initial state
MountQueryEffect ==
    /\ pc = "mountQuery"
    /\ RunQueryEffect(doctors, filters, consultationType, sorting, searchQuery)
    /\ pc' = "mountURL"
    /\ UNCHANGED <<variant, opened, doctors, searchQuery, isLoading, filters,
                   consultationType, sorting, fetchState, requests, unhandled,
                   logged, events,
                   inflight, settled>>

\* the third effect reading the query string the page was opened with
MountURLEffectReadsOpened ==
    /\ pc = "mountURL"
    /\ LET params == ParseParams(opened)
       IN  /\ filters' = URLFilters(params)
           /\ consultationType' = URLConsultationType(params, consultationType)
           /\ sorting' = URLSorting(params)
           /\ searchQuery' = URLSearchQuery(params, searchQuery)
    /\ pc' = "effect"
    /\ UNCHANGED <<variant, opened, url, doctors, filteredDoctors, isLoading,
                   fetchState, requests, unhandled, logged, events,
                   inflight, settled>>

\* third effect on mount: the criteria are set from the location's query
\* string; filters and sorting are new objects, so the query effect is due
MountURLEffect ==
    /\ pc = "mountURL"
    /\ LET params == ParseParams(url)
       IN  /\ filters' = URLFilters(params)
           /\ consultationType' = URLConsultationType(params, consultationType)
           /\ sorting' = URLSorting(params)
           /\ searchQuery' = URLSearchQuery(params, searchQuery)
    /\ pc' = "effect"
    /\ UNCHANGED <<variant, opened, url, doctors, filteredDoctors, isLoading,
                   fetchState, requests, unhandled, logged, events,
                   inflight, settled>>

\* the query effect after a render in which one of its dependencies changed
QueryEffect ==
    /\ pc = "effect"
    /\ RunQueryEffect(doctors, filters, consultationType, sorting, searchQuery)
    /\ pc' = "idle"
    /\ UNCHANGED <<variant, opened, doctors, searchQuery, isLoading, filters,
                   consultationType, sorting, fetchState, requests, unhandled,
                   logged, events,
                   inflight, settled>>

\* fetchDoctors without its finally block: a failure leaves the flag set
FetchSettlesNoFinally(response) ==
    /\ pc = "idle"
    /\ inflight # {}
    /\ IF ResponseThrows(response)
       THEN /\ logged' = logged + 1
            /\ doctors' = <<>>
            /\ filteredDoctors' = <<>>
            /\ isLoading' = isLoading
       ELSE /\ logged' = logged
            /\ doctors' = transformedData(response)
            /\ filteredDoctors' = transformedData(response)
            /\ isLoading' = FALSE
    /\ unhandled' = FALSE
    /\ fetchState' = Settlement(response)
    /\ pc' = "effect"
    /\ \E id \in inflight :
          /\ inflight' = inflight \ {id}
          /\ settled' = Append(settled, [id |-> id, response |-> response])
    /\ UNCHANGED <<variant, opened, url, searchQuery, filters, consultationType,
                   sorting, requests, events>>

\* fetchDoctors without its catch block: a failure leaves the function
FetchSettlesNoCatch(response) ==
    /\ pc = "idle"
    /\ inflight # {}
    /\ IF ResponseThrows(response)
       THEN /\ unhandled' = TRUE
            /\ UNCHANGED <<logged, doctors, filteredDoctors>>
       ELSE /\ unhandled' = FALSE
            /\ logged' = logged
            /\ doctors' = transformedData(response)
            /\ filteredDoctors' = transformedData(response)
    /\ isLoading' = FALSE
    /\ fetchState' = Settlement(response)
    /\ pc' = "effect"
    /\ \E id \in inflight :
          /\ inflight' = inflight \ {id}
          /\ settled' = Append(settled, [id |-> id, response |-> response])
    /\ UNCHANGED <<variant, opened, url, searchQuery, filters, consultationType,
                   sorting, requests, events>>

\* fetchDoctors calling itself again from its catch block: a failure leaves
\* the request in flight and the flag set
FetchSettlesRetriesOnFailure(response) ==
    /\ pc = "idle"
    /\ inflight # {}
    /\ IF ResponseThrows(response)
       THEN UNCHANGED <<logged, doctors, filteredDoctors, isLoading, fetchState,
                        inflight, settled>>
       ELSE /\ logged' = logged
            /\ doctors' = transformedData(response)
            /\ filteredDoctors' = transformedData(response)
            /\ isLoading' = FALSE
            /\ fetchState' = Settlement(response)
            /\ \E id \in inflight :
                  /\ inflight' = inflight \ {id}
                  /\ settled' = Append(settled, [id |-> id, response |-> response])
    /\ unhandled' = FALSE
    /\ pc' = "effect"
    /\ UNCHANGED <<variant, opened, url, searchQuery, filters, consultationType,
                   sorting, requests, events>>

\* fetchDoctors with a generation check: the response of a request that is
\* not the latest one issued is dropped
FetchSettlesLatestOnly(response) ==
    /\ pc = "idle"
    /\ inflight # {}
    /\ \E id \in inflight :
          /\ inflight' = inflight \ {id}
          /\ settled' = Append(settled, [id |-> id, response |-> response])
          /\ IF id # requests
             THEN UNCHANGED <<logged, doctors, filteredDoctors, isLoading, fetchState>>
             ELSE /\ IF ResponseThrows(response)
                     THEN /\ logged' = logged + 1
                          /\ doctors' = <<>>
                          /\ filteredDoctors' = <<>>
                     ELSE /\ logged' = logged
                          /\ doctors' = transformedData(response)
                          /\ filteredDoctors' = transformedData(response)
                  /\ isLoading' = FALSE
                  /\ fetchState' = Settlement(response)
    /\ unhandled' = FALSE
    /\ pc' = "effect"
    /\ UNCHANGED <<variant, opened, url, searchQuery, filters, consultationType,
                   sorting, requests, events>>

\* the rest of fetchDoctors, once a request has settled: try, catch, finally;
\* nothing in it tells which request the response belongs to
FetchSettles(response) ==
    /\ pc = "idle"
    /\ inflight # {}
    /\ IF ResponseThrows(response)
       THEN /\ logged' = logged + 1
            /\ doctors' = <<>>
            /\ filteredDoctors' = <<>>
       ELSE /\ logged' = logged
            /\ doctors' = transformedData(response)
            /\ filteredDoctors' = transformedData(response)
    /\ isLoading' = FALSE
    /\ unhandled' = FALSE
    /\ fetchState' = Settlement(response)
    /\ pc' = "effect"
    /\ \E id \in inflight :
          /\ inflight' = inflight \ {id}
          /\ settled' = Append(settled, [id |-> id, response |-> response])
    /\ UNCHANGED <<variant, opened, url, searchQuery, filters, consultationType,
                   sorting, requests, events>>

\* a user event is handled when the component is idle
UserEvent ==
    /\ pc = "idle"
    /\ events < MaxEvents
    /\ events' = events + 1
    /\ UNCHANGED <<variant, opened, doctors, isLoading, pc, fetchState, requests,
                   unhandled, logged, inflight, settled>>

handleFilterChange(filterName, value) ==
    /\ UserEvent
    /\ filters' = [filters EXCEPT ![filterName] = value]
    /\ UNCHANGED <<consultationType, sorting, searchQuery>>
    /\ RunQueryEffect(doctors, filters', consultationType, sorting, searchQuery)

\* setting a string state to the value it has renders nothing
handleConsultationTypeChange(type) ==
    /\ UserEvent
    /\ consultationType' = type
    /\ UNCHANGED <<filters, sorting, searchQuery>>
    /\ IF type = consultationType
       THEN UNCHANGED <<filteredDoctors, url>>
       ELSE RunQueryEffect(doctors, filters, type, sorting, searchQuery)

\* a sort selector that switches the mode off when it is chosen again
handleSortChangeToggles(sortType) ==
    /\ UserEvent
    /\ sorting' = [fees       |-> sortType = "fees" /\ ~sorting.fees,
                   experience |-> sortType = "experience" /\ ~sorting.experience]
    /\ UNCHANGED <<filters, consultationType, searchQuery>>
    /\ RunQueryEffect(doctors, filters, consultationType, sorting', searchQuery)

handleSortChange(sortType) ==
    /\ UserEvent
    /\ sorting' = [fees |-> sortType = "fees", experience |-> sortType = "experience"]
    /\ UNCHANGED <<filters, consultationType, searchQuery>>
    /\ RunQueryEffect(doctors, filters, consultationType, sorting', searchQuery)

handleSearchChange(value) ==
    /\ UserEvent
    /\ searchQuery' = value
    /\ UNCHANGED <<filters, consultationType, sorting>>
    /\ IF value = searchQuery
       THEN UNCHANGED <<filteredDoctors, url>>
       ELSE RunQueryEffect(doctors, filters, consultationType, sorting, value)

\* clearAllFilters without its setSearchQuery('') call
clearAllFiltersKeepsSearch ==
    /\ UserEvent
    /\ variant = "App"
    /\ filters' = NoFilters
    /\ consultationType' = All
    /\ sorting' = NoSorting
    /\ searchQuery' = searchQuery
    /\ RunQueryEffect(doctors, NoFilters, All, NoSorting, searchQuery)

\* App.jsx only
clearAllFilters ==
    /\ UserEvent
    /\ variant = "App"
    /\ filters' = NoFilters
    /\ consultationType' = All
    /\ sorting' = NoSorting
    /\ searchQuery' = <<>>
    /\ RunQueryEffect(doctors, NoFilters, All, NoSorting, <<>>)

\* what the results area shows below its header
View ==
    IF isLoading THEN "spinner"
    ELSE IF Len(filteredDoctors) > 0 THEN "list"
    ELSE "no doctors found"

\* the header of the results area: App.jsx renders the line
\* "<n> doctors found" above the area whatever isLoading is, part_000 has
\* no such line
NoHeader == [shown |-> FALSE]
ResultsHeader ==
    IF variant = "App"
    THEN [shown |-> TRUE, count |-> Len(filteredDoctors)]
    ELSE NoHeader

Next ==
    \/ MountFetchEffect
    \/ MountQueryEffect
    \/ MountURLEffect
    \/ QueryEffect
    \/ \E response \in Responses : FetchSettles(response)
    \/ \E k \in KeySet, value \in BOOLEAN : handleFilterChange(k, value)
    \/ \E type \in {All, Video, Clinic} : handleConsultationTypeChange(type)
    \/ \E sortType \in {"fees", "experience"} : handleSortChange(sortType)
    \/ \E value \in SearchInputs : handleSearchChange(value)
    \/ clearAllFilters

Spec == Init /\ [][Next]_vars

(***************************************************************************)
(* The load from page load to its end, with a user who types in the search *)
(* box meanwhile.  The effects of a render are run by React without        *)
(* further cause, and the request is taken to settle; nothing obliges the  *)
(* user to act.                                                            *)
(***************************************************************************)
NextLive ==
    \/ MountFetchEffect
    \/ MountQueryEffect
    \/ MountURLEffect
    \/ QueryEffect
    \/ \E response \in Responses : FetchSettles(response)
    \/ \E value \in SearchInputs : handleSearchChange(value)

SpecLive ==
    /\ Init /\ [][NextLive]_vars
    /\ WF_vars(MountFetchEffect \/ MountQueryEffect \/ MountURLEffect \/ QueryEffect)
    /\ WF_vars(\E response \in Responses : FetchSettles(response))

(***************************************************************************)
(* Overlapping loads.  The component calls fetchDoctors once, from its     *)
(* mount effect.  When that effect is run again while a request is in      *)
(* flight (a remount of the component, as React's StrictMode does in       *)
(* development), fetchDoctors issues another request; the requests settle  *)
(* in any order.                                                           *)
(***************************************************************************)
\* fetchDoctors() called again, up to its first await
RemountFetchEffect ==
    /\ pc = "idle"
    /\ inflight # {}
    /\ requests < MaxLoads
    /\ isLoading' = TRUE
    /\ fetchState' = "inflight"
    /\ requests' = requests + 1
    /\ inflight' = inflight \cup {requests + 1}
    /\ UNCHANGED <<variant, opened, url, doctors, filteredDoctors, searchQuery,
                   filters, consultationType, sorting, pc, unhandled, logged,
                   events, settled>>

NextReload ==
    \/ MountFetchEffect
    \/ MountQueryEffect
    \/ MountURLEffect
    \/ QueryEffect
    \/ RemountFetchEffect
    \/ \E response \in Responses : FetchSettles(response)

SpecReload == Init /\ [][NextReload]_vars

(***************************************************************************)
(* The query effect as a function of its inputs: every list of at most     *)
(* MaxPayloadLen records under every criteria value, in the state the      *)
(* component is in right after that list has arrived (the criteria were    *)
(* chosen while the request was in flight), and the effect then runs.      *)
(***************************************************************************)
CriteriaValues ==
    [KeySet -> BOOLEAN] \X {All, Video, Clinic}
    \X {NoSorting, [fees |-> TRUE, experience |-> FALSE], [fees |-> FALSE, experience |-> TRUE]}
    \X SearchInputs

InitQuery ==
    /\ variant \in {"App", "part_000"}
    /\ opened = <<>>
    /\ \E l \in ItemLists(MaxPayloadLen) :
          /\ doctors = transformedData(Response(FALSE, FALSE, Arr(l)))
          /\ filteredDoctors = doctors
          /\ settled = <<[id |-> 1, response |-> Response(FALSE, FALSE, Arr(l))]>>
    /\ inflight = {}
    /\ \E c \in CriteriaValues :
          /\ filters = c[1]
          /\ consultationType = c[2]
          /\ sorting = c[3]
          /\ searchQuery = c[4]
    /\ url = SerializeToURL(filters, consultationType, sorting, searchQuery)
    /\ isLoading = FALSE
    /\ pc = "effect"
    /\ fetchState = "loaded"
    /\ requests = 1
    /\ unhandled = FALSE
    /\ logged = 0
    /\ events = 0

NextQuery == QueryEffect

SpecQuery == InitQuery /\ [][NextQuery]_vars

(***************************************************************************)
(* Helpers of the properties.                                              *)
(***************************************************************************)
Range(seq) == {seq[i] : i \in 1..Len(seq)}
Count(seq, x) == Cardinality({i \in 1..Len(seq) : seq[i] = x})
\* the values the query string holds under a name, in order
ParamValues(query, name) ==
    LET params == ParseParams(query)
        at == SelectSeq([i \in 1..Len(params) |-> i], LAMBDA i : params[i][1] = name)
    IN  [i \in 1..Len(at) |-> params[at[i]][2]]
ParamNames(query) == {p[1] : p \in Range(ParseParams(query))}
\* the mount effects have all run, and nothing else has changed the criteria
Mounted == pc \in {"effect", "idle"} /\ events = 0
DefaultCriteria == <<NoFilters, All, NoSorting, <<>>>>
Special == <<"%","2","6"," ","&","=","+">>

(***************************************************************************)
(* C1.  Page load initializes the criteria from the URL: once the three    *)
(* mount effects have run, the criteria are those the query string the     *)
(* page was opened with names (each specialty flag set iff its parameter   *)
(* is "true", the consultation type and the search string taken if         *)
(* present, the sort flags from the two markers).  The code does not do    *)
(* this: the query effect runs before the URL effect and has already       *)
(* replaced the query string with that of the default criteria.            *)
(***************************************************************************)
C1_LoadInitializesCriteriaFromURL ==
    Mounted => criteria = DeserializeFromURL(opened)

(***************************************************************************)
(* C2.  After any sequence of criteria changes, once the query effect has  *)
(* run, the query string holds exactly the criteria that are not at their  *)
(* default: filter-specialty-<key>=true once for each active key and not   *)
(* for another key, consultation-type once when the type is not "all", one *)
(* sort marker for the active sort mode and none without one, search once  *)
(* when the search string is not empty, and no other parameter.            *)
(***************************************************************************)
C2_URLHoldsNonDefaultCriteria ==
    pc = "idle" =>
        /\ \A k \in KeySet :
              ParamValues(url, FilterParam(k)) = IF filters[k] THEN <<True>> ELSE <<>>
        /\ ParamValues(url, ConsultationParam)
              = IF consultationType = All THEN <<>> ELSE <<consultationType>>
        /\ ParamValues(url, SortFeesParam) \o ParamValues(url, SortExperienceParam)
              = IF sorting.fees \/ sorting.experience THEN <<True>> ELSE <<>>
        /\ ParamValues(url, SortFeesParam) = IF sorting.fees THEN <<True>> ELSE <<>>
        /\ ParamValues(url, SearchParam)
              = IF searchQuery = <<>> THEN <<>> ELSE <<searchQuery>>
        /\ ParamNames(url) \subseteq
              {FilterParam(k) : k \in KeySet}
              \cup {ConsultationParam, SortFeesParam, SortExperienceParam, SearchParam}

C2_Witness ==
    /\ pc = "idle"
    /\ events = 3
    /\ filters[dentist]
    /\ consultationType = Clinic
    /\ searchQuery = Special
    /\ ~sorting.fees /\ ~sorting.experience

(***************************************************************************)
(* C3.  URL round trip: reading the query string the query effect wrote    *)
(* for a criteria value gives back exactly that criteria value, for every  *)
(* set of specialty keys, consultation type, sort mode and search string;  *)
(* and the query string written for the default criteria is empty.         *)
(***************************************************************************)
C3_URLRoundTrip ==
    pc = "idle" =>
        /\ DeserializeFromURL(url) = criteria
        /\ criteria = DefaultCriteria => url = <<>>

C3_Witness ==
    /\ pc = "idle"
    /\ filters[dentist] /\ filters[gynecologist]
    /\ consultationType = Video
    /\ sorting.fees
    /\ searchQuery = Special
    /\ DeserializeFromURL(url) = criteria

(***************************************************************************)
(* C4.  For every raw list and every criteria value, the list the query    *)
(* effect derives holds exactly the records of the raw list that pass the  *)
(* specialty test and the consultation type test and the search test, each *)
(* as often as the raw list holds it; without a sort mode the records are  *)
(* in the order of the raw list.                                           *)
(***************************************************************************)
Passes(d) ==
    /\ SpecialtyPasses(d, filters)
    /\ ConsultationPasses(d, consultationType)
    /\ SearchPasses(d, searchQuery, variant)

C4_DerivedListIsFilteredRawList ==
    pc = "idle" =>
        /\ \A d \in Range(doctors) \cup Range(filteredDoctors) :
              Count(filteredDoctors, d) = IF Passes(d) THEN Count(doctors, d) ELSE 0
        /\ (~sorting.fees /\ ~sorting.experience) =>
              filteredDoctors = SelectSeq(doctors, Passes)

C4_Witness ==
    /\ pc = "idle"
    /\ ~sorting.fees /\ ~sorting.experience
    /\ filters[physician] /\ consultationType = Clinic /\ searchQuery = <<"a","n","n">>
    /\ Len(doctors) = 3
    /\ Len(filteredDoctors) = 1

(***************************************************************************)
(* C5.  Sorted by fee: each record's fee is at most the next one's, and    *)
(* two records of equal fee are in the order they had in the filtered      *)
(* list before sorting.                                                    *)
(***************************************************************************)
BeforeSort == FilterSteps(doctors, filters, consultationType, searchQuery, variant)

C5_FeeAscendingStable ==
    (pc = "idle" /\ sorting.fees) =>
        /\ \A i \in 1..(Len(filteredDoctors) - 1) :
              filteredDoctors[i].fee <= filteredDoctors[i + 1].fee
        /\ \A i, j \in 1..Len(filteredDoctors) :
              (i < j /\ filteredDoctors[i].fee = filteredDoctors[j].fee) =>
                  /\ IndexOf(BeforeSort, filteredDoctors[i]) > 0
                  /\ IndexOf(BeforeSort, filteredDoctors[i])
                        < IndexOf(BeforeSort, filteredDoctors[j])

\* the raw list has fees 200, 100, 100: the sort moves the first record
\* behind the two it ties
C5_Witness ==
    /\ pc = "idle"
    /\ sorting.fees
    /\ Len(doctors) = 3 /\ Len(filteredDoctors) = 3
    /\ doctors[1].fee > doctors[2].fee /\ doctors[2].fee = doctors[3].fee
    /\ filteredDoctors = <<doctors[2], doctors[3], doctors[1]>>

(***************************************************************************)
(* C6.  Sorted by experience: each record's experience is at least the     *)
(* next one's, and two records of equal experience are in the order they   *)
(* had in the filtered list before sorting.                                *)
(***************************************************************************)
C6_ExperienceDescendingStable ==
    (pc = "idle" /\ sorting.experience) =>
        /\ \A i \in 1..(Len(filteredDoctors) - 1) :
              filteredDoctors[i].experience >= filteredDoctors[i + 1].experience
        /\ \A i, j \in 1..Len(filteredDoctors) :
              (i < j /\ filteredDoctors[i].experience = filteredDoctors[j].experience) =>
                  /\ IndexOf(BeforeSort, filteredDoctors[i]) > 0
                  /\ IndexOf(BeforeSort, filteredDoctors[i])
                        < IndexOf(BeforeSort, filteredDoctors[j])

\* the raw list has experiences 5, 5, 12: the sort moves the last record
\* in front of the two that tie
C6_Witness ==
    /\ pc = "idle"
    /\ sorting.experience
    /\ Len(doctors) = 3 /\ Len(filteredDoctors) = 3
    /\ doctors[1].experience = doctors[2].experience
    /\ doctors[2].experience < doctors[3].experience
    /\ filteredDoctors = <<doctors[3], doctors[1], doctors[2]>>

(***************************************************************************)
(* C7.  Specialty filtering: with no key active every record passes the    *)
(* specialty step; with keys active a record passes iff its specialty      *)
(* text, in lower case, contains an active key; so the records derived     *)
(* under several keys are those derived under any one of them alone.       *)
(***************************************************************************)
ActiveKeys == {k \in KeySet : filters[k]}
OnlyKey(k) == [j \in KeySet |-> j = k]

C7_SpecialtyFilterIsUnionOverKeys ==
    pc = "idle" =>
        /\ \A d \in Range(doctors) :
              d \in Range(filteredDoctors) <=>
                  /\ ConsultationPasses(d, consultationType)
                  /\ SearchPasses(d, searchQuery, variant)
                  /\ \/ ActiveKeys = {}
                     \/ \E k \in ActiveKeys :
                           Includes(ToLowerCase(d.specialty), ToLowerCase(k))
        /\ ActiveKeys # {} =>
              Range(filteredDoctors) =
                  UNION { Range(ApplyQuery(doctors, OnlyKey(k), consultationType,
                                           sorting, searchQuery, variant)) :
                          k \in ActiveKeys }

\* dentist and ayurveda: two of three records are kept, by the first key
C7_Witness ==
    /\ pc = "idle"
    /\ ActiveKeys = {dentist, ayurveda}
    /\ consultationType = All /\ searchQuery = <<>>
    /\ Len(doctors) = 3
    /\ Len(filteredDoctors) = 2

(***************************************************************************)
(* C8.  Search filtering: an empty search string keeps every record; any   *)
(* other keeps a record iff the search string, case ignored, is part of    *)
(* the record's name (in App.jsx: of its name or of its specialty).        *)
(***************************************************************************)
C8_SearchIsCaseInsensitiveSubstring ==
    pc = "idle" =>
        /\ Range(filteredDoctors) \subseteq Range(doctors)
        /\ \A d \in Range(doctors) :
              (SpecialtyPasses(d, filters) /\ ConsultationPasses(d, consultationType)) =>
                  ( d \in Range(filteredDoctors) <=>
                      \/ searchQuery = <<>>
                      \/ Includes(ToLowerCase(d.name), ToLowerCase(searchQuery))
                      \/ /\ variant = "App"
                         /\ Includes(ToLowerCase(d.specialty), ToLowerCase(searchQuery)) )

\* "ann" keeps Anna and HANNAH and drops Bo
C8_Witness ==
    /\ pc = "idle"
    /\ searchQuery = <<"a","n","n">>
    /\ ActiveKeys = {} /\ consultationType = All
    /\ Len(doctors) = 3
    /\ {d.name : d \in Range(filteredDoctors)} = {<<"A","n","n","a">>, <<"H","A","N","N","A","H">>}

(***************************************************************************)
(* C9.  Loading is not loaded-empty: until the request settles the flag    *)
(* is set, the displayed list is empty and the view shows the spinner,     *)
(* not the no-results message; after a request that fails the flag is      *)
(* clear, the displayed list is empty and the no-results message is shown. *)
(***************************************************************************)
C9_LoadingDistinctFromEmpty ==
    /\ fetchState \in {"none", "inflight"} =>
          isLoading /\ filteredDoctors = <<>> /\ View = "spinner"
    /\ fetchState \in Failures =>
          ~isLoading /\ filteredDoctors = <<>> /\ View = "no doctors found"

C9_Witness ==
    /\ fetchState = "rejected"
    /\ pc = "effect"
    /\ events > 0
    /\ View = "no doctors found"

(***************************************************************************)
(* C10.  Whatever way the load fails (the request rejects, the body does   *)
(* not decode, the payload is no list of items of the expected shape),     *)
(* it ends with the raw list empty, the derived list empty and the flag    *)
(* clear; the failure is logged and does not leave fetchDoctors; the       *)
(* criteria are as they were; no second request is made.                   *)
(***************************************************************************)
C10_LoadFailureIsSwallowed ==
    /\ [](fetchState \in Failures =>
             /\ doctors = <<>> /\ filteredDoctors = <<>> /\ ~isLoading
             /\ ~unhandled /\ logged = 1 /\ requests = 1)
    /\ [][(fetchState = "inflight" /\ fetchState' \in Failures) =>
             criteria' = criteria /\ requests' = requests]_vars

C10_Witness ==
    /\ fetchState = "malformed"
    /\ doctors = <<>>
    /\ logged = 1
    /\ filters[dentist]

(***************************************************************************)
(* C11.  A numeric field that is absent or does not parse is recovered     *)
(* inside its record: whenever the payload is a list of items whose only   *)
(* defects are in experience or fees, the load succeeds, a record whose    *)
(* field is absent or is no parsable number has 0 in it, and every other   *)
(* field and record is what the transform makes of the item.               *)
(***************************************************************************)
\* the value is absent, or no string, or a string parseInt makes NaN of
UnparsableExperience(v) ==
    v.t # "string" \/ ParseIntString(FirstWord(v.s)).nan

UnparsableFee(v) ==
    v.t # "string" \/ ParseIntString(Trim(RemoveFirst(v.s, <<Rupee>>))).nan

RecoveredRecord(doctor) ==
    [id           |-> doctor.id,
     name         |-> doctor.name,
     specialty    |-> SpecialtyOf(doctor),
     experience   |-> IF UnparsableExperience(doctor.experience) THEN 0
                      ELSE ExperienceOf(doctor),
     fee          |-> IF UnparsableFee(doctor.fees) THEN 0 ELSE FeeOf(doctor),
     videoConsult |-> FlagOf(doctor.video_consult),
     inClinic     |-> FlagOf(doctor.in_clinic)]

\* the payload is a list and nothing but numeric fields is wrong with it
OnlyNumericDefects(response) ==
    /\ ~response.fetchRejects
    /\ ~response.jsonRejects
    /\ response.data.t = "array"
    /\ \A i \in 1..Len(response.data.a) : response.data.a[i].specialities.t = "array"

C11_NumericFieldsRecoveredLocally ==
    [][\A response \in Responses :
          (FetchSettles(response) /\ OnlyNumericDefects(response)) =>
              /\ fetchState' = "loaded"
              /\ doctors' = [i \in 1..Len(response.data.a) |->
                                RecoveredRecord(response.data.a[i])]]_vars

(***************************************************************************)
(* C12.  The sort flags exclude each other: in no reachable state,         *)
(* whatever query string the page was opened with and whatever the user    *)
(* did, are the fee flag and the experience flag both true.                *)
(***************************************************************************)
C12_SortFlagsExclusive == ~(sorting.fees /\ sorting.experience)

\* opened with both markers in the query string, mounted, and the sort
\* selector has been used
C12_Witness ==
    /\ ParamsGet(ParseParams(opened), SortFeesParam) = Found(True)
    /\ ParamsGet(ParseParams(opened), SortExperienceParam) = Found(True)
    /\ pc = "idle"
    /\ events > 0
    /\ sorting.experience

(***************************************************************************)
(* C13.  clearAllFilters (App.jsx) is atomic: the step it takes ends with  *)
(* every specialty flag false, the consultation type all, no sort flag     *)
(* and an empty search string; the list derived and the query string       *)
(* written in that step are those of the default criteria, so no partly    *)
(* reset criteria are rendered or written; the raw list and the loading    *)
(* flag are as before.                                                     *)
(***************************************************************************)
C13_ClearAllIsAtomic ==
    [][clearAllFilters =>
          /\ criteria' = DefaultCriteria
          /\ url' = <<>>
          /\ filteredDoctors' = ApplyQuery(doctors, NoFilters, All, NoSorting, <<>>, variant)
          /\ doctors' = doctors
          /\ isLoading' = isLoading]_vars

\* the last of MaxEvents events left the criteria at their defaults with
\* the list loaded and shown in full
C13_Witness ==
    /\ variant = "App"
    /\ pc = "idle"
    /\ events = MaxEvents
    /\ criteria = DefaultCriteria
    /\ url = <<>>
    /\ fetchState = "loaded"
    /\ doctors # <<>>
    /\ filteredDoctors = doctors

(***************************************************************************)
(* C14.  The displayed list is the derived list of the current inputs: in  *)
(* every state in which isLoading is false, filteredDoctors is what the    *)
(* query effect derives from doctors and the current criteria -- also in   *)
(* the state right after a successful load during which the user changed   *)
(* the criteria.                                                           *)
(***************************************************************************)
C14_DisplayedListIsDerivedList ==
    ~isLoading =>
        filteredDoctors = ApplyQuery(doctors, filters, consultationType, sorting,
                                     searchQuery, variant)

(***************************************************************************)
(* C15.  The consultation type stays in its domain: in every reachable     *)
(* state, whatever query string the page was opened with and whatever the  *)
(* user did, consultationType is all, video or clinic, and the             *)
(* consultation-type parameter the query effect writes is video or clinic. *)
(***************************************************************************)
C15_ConsultationTypeInDomain ==
    /\ consultationType \in {All, Video, Clinic}
    /\ pc \notin {"mountFetch", "mountQuery"} =>
          \A v \in Range(ParamValues(url, ConsultationParam)) : v \in {Video, Clinic}

\* opened with consultation-type=phone, mounted, and a button pressed
C15_Witness ==
    /\ ParamsGet(ParseParams(opened), ConsultationParam) = Found(Phone)
    /\ pc = "idle"
    /\ events > 0
    /\ consultationType = Clinic
    /\ ParamValues(url, ConsultationParam) = <<Clinic>>

(***************************************************************************)
(* C16.  fetchDoctors does not guard against overlapping calls: when it    *)
(* is called again while a request is in flight, then once all requests    *)
(* have settled the raw list is the outcome of the response that settled   *)
(* last, whichever request it answers; a response to an earlier request    *)
(* overwrites that of a later one.                                         *)
(***************************************************************************)
Outcome(response) ==
    IF ResponseThrows(response) THEN <<>> ELSE transformedData(response)

C16_LastSettledResponseWins ==
    (requests >= 2 /\ inflight = {} /\ Len(settled) = requests) =>
        doctors = Outcome(settled[Len(settled)].response)

\* the second request settled first with the list, the first request then
\* settled with a failure and emptied the raw list
C16_Witness ==
    /\ requests = 2
    /\ inflight = {}
    /\ Len(settled) = 2
    /\ settled[1].id = 2 /\ Settlement(settled[1].response) = "loaded"
    /\ Outcome(settled[1].response) # <<>>
    /\ settled[2].id = 1 /\ Settlement(settled[2].response) = "rejected"
    /\ doctors = <<>>

(***************************************************************************)
(* C17.  Loading ends only when the request settles: isLoading is true     *)
(* from page load for as long as the one request has not settled (so it    *)
(* stays true for ever when the request never settles: there is no timeout *)
(* and no cancellation); it becomes false only in the step in which the    *)
(* request settles and is never true again; and when the request does      *)
(* settle, isLoading eventually is false for good.                         *)
(***************************************************************************)
C17_LoadingEndsOnlyWhenFetchSettles ==
    /\ []((settled = <<>>) => isLoading)
    /\ [][(isLoading /\ ~isLoading') => (inflight # {} /\ inflight' = {})]_vars
    /\ [][~isLoading => ~isLoading']_vars
    /\ <>[](~isLoading)

\* the request has settled, the user has acted since, loading is over
C17_Witness ==
    /\ ~isLoading
    /\ settled # <<>>
    /\ inflight = {}
    /\ pc = "idle"
    /\ events = MaxEvents
    /\ searchQuery # <<>>

(***************************************************************************)
(* C18.  Every record of the raw list has a non-negative integer           *)
(* experience and a non-negative integer fee, whatever payload the         *)
(* endpoint returns -- also when the number an experience or fees string   *)
(* starts with has a minus sign.                                           *)
(***************************************************************************)
C18_ExperienceAndFeeNonNegative ==
    \A i \in 1..Len(doctors) :
        /\ doctors[i].experience \in Nat
        /\ doctors[i].fee \in Nat

(***************************************************************************)
(* C19.  The sort selector only switches sorting on: every                 *)
(* handleSortChange step ends with exactly one of the two flags true; a    *)
(* step that takes the flags from some sort mode to none is a              *)
(* clearAllFilters step; and in part_000, which has no clearAllFilters,    *)
(* a sort mode once chosen is never followed by none.                      *)
(***************************************************************************)
C19_SortSelectorOnlySwitchesOn ==
    /\ [][(\E sortType \in {"fees", "experience"} : handleSortChange(sortType)) =>
             (sorting'.fees # sorting'.experience)]_vars
    /\ [][(sorting # NoSorting /\ sorting' = NoSorting) => clearAllFilters]_vars
    /\ [][(variant = "part_000" /\ sorting # NoSorting) => sorting' # NoSorting]_vars

\* part_000: a sort mode was chosen first, and after all further events a
\* sort mode is still on
C19_Witness ==
    /\ variant = "part_000"
    /\ pc = "idle"
    /\ events = MaxEvents
    /\ sorting.experience /\ ~sorting.fees
    /\ filters[physician]
    /\ consultationType = Video

====
